---- MODULE Spec2Model ----
(***************************************************************************)
(* Visitor animation-state store of cat-and-ball.                          *)
(*                                                                         *)
(* Four source variants are modelled side by side; `variant` is fixed at   *)
(* construction and selects which one runs:                                *)
(*   "server.js"  in-memory Map, capacity eviction in a loop               *)
(*   "part_000"   in-memory Map, capacity eviction of the first key only   *)
(*   "worker.js"  Cloudflare worker, state in a KV namespace               *)
(*   "part_001"   Cloudflare worker with frame cache                       *)
(***************************************************************************)
EXTENDS Integers, Sequences, FiniteSets, TLC

----------------------------------------------------------------------------
(* Bounds of the model *)

MaxFrames == 2
MaxNow == 3
\* animation ids, day counts and day offsets given to the selection
MaxIds == 3
MaxDay == 3
MaxOffset == 2
\* lengths of the ip and user-agent strings given to the key construction
MaxIp == 2
MaxUa == 5
\* frame files of a directory listing, and the largest frame number
MaxFiles == 2
MaxFrameNo == 10

(* Program constants, scaled to the model's clock and key space.  The TTL
   spans two instants and the day three, so that a value stored on one day
   can be read on the next, within its TTL or past it *)

MAX_VISITORS == 2
TTL_MS == 2
MS_PER_DAY == 3
\* the cap on ip + user-agent of part_000, the user-agent slice of the worker
\* and the length of a SHA-256 digest in hex, scaled to the strings above
KEY_CAP == 4
UA_SLICE == 3
SHA256_HEX_LEN == 2
\* the delay setInterval uses when none is given (1 ms): below one clock step
TIMER_DEFAULT_MS == 0
\* the key "github-camo-global", which is no digest
CAMO_GLOBAL == 0

MaxCalls == MaxFrames + 2
NumKeys == MAX_VISITORS + 1
TTL_SECONDS == TTL_MS

Keys == 1..NumKeys
\* the fingerprint whose solo run is recorded
Watched == CHOOSE k \in Keys : \A j \in Keys : k <= j
\* the .svg.gz files of a directory: frame1 .. frame<n>
Listings == {1..n : n \in 0..MaxFrames}
AnimIds == {1, 2}
DayOffsets == {-1, 0, 1}
ServerVariants == {"server.js", "part_000"}
WorkerVariants == {"worker.js", "part_001"}
Variants == ServerVariants \cup WorkerVariants

\* the worker's requests in flight, and the visitor hashes they carry
Slots == {1, 2}
Hashes == {1, 2}
\* import { FRAMES, ANIMATION_IDS } from "./gen/frames.js"
ANIMATION_IDS == <<1, 2>>
\* the frame tables a build can produce: the second animation shorter, longer,
\* or empty, the first empty, and single-frame animations
FrameTables ==
  {[a \in AnimIds |-> IF a = 1 THEN MaxFrames ELSE MaxFrames - 1],
   [a \in AnimIds |-> IF a = 1 THEN MaxFrames - 1 ELSE MaxFrames],
   [a \in AnimIds |-> IF a = 1 THEN MaxFrames ELSE 0],
   [a \in AnimIds |-> IF a = 1 THEN 0 ELSE MaxFrames],
   [a \in AnimIds |-> 1]}

Undefined == -1
NoExit == -1

VARIABLES
  variant,        \* which source file is running
  now,            \* Date.now()
  phase,          \* startup position of the server process
  exitCode,       \* argument of process.exit, NoExit while running
  frames,         \* let frames = []  (frame numbers, in served order)
  visitorFrames,  \* const visitorFrames = new Map(), in insertion order
  last,           \* the last operation: arguments, result, keys it removed,
                  \* and whether it removed the key of the call before it
  calls,          \* history: calls per key since its entry was created
  older,          \* history: <<a, b>> iff a and b are present, a inserted first
  solo,           \* history: the entry Watched would have if it ran alone
  removed,        \* history: how each absent key lost its entry
  capped,         \* history: Watched has lost an entry to capacity eviction
  FRAMES,         \* gen/frames.js: animation id -> number of frames
  frameCache,     \* part_001: ids whose decoded frames are cached
  kv,             \* env.VISITOR_STATE: hash -> { idx, at } with its expiry
  req,            \* the fetch invocations: position and locals of each
  resp,           \* the answer of the invocation that finished last
  loads,          \* history: the animation ids loadFrames returned frames for
  overlapped,     \* history: an invocation was started while another one
                  \* was parked at an await
  frameHeaders,   \* let frameHeaders = []  (Content-Length of each frame)
  armedAt,        \* when the setInterval timer was armed or last ran
  sel,            \* getAnimationForToday applied to given days and ids
  keyed,          \* the visitor key built from a given ip and user-agent
  listing,        \* a directory listing and the frame files loaded from it
  twin,           \* the Map of the other server variant, given the same calls
  lastReq         \* part_001: the headers and query of the request that
                  \* came last, and the visitorHash fetch gave it

serverVars == <<phase, exitCode, frames, frameHeaders, visitorFrames, last,
                calls, older, solo, removed, capped>>
workerVars == <<FRAMES, frameCache, kv, req, resp, loads, overlapped>>
\* state used only by the specifications of single functions and of the timer
auxVars == <<armedAt, sel, keyed, listing, twin, lastReq>>
vars == <<variant, now, serverVars, workerVars, auxVars>>

----------------------------------------------------------------------------
(* JavaScript helpers *)

Min(a, b) == IF a < b THEN a ELSE b

\* a % b of JavaScript for b > 0: the sign follows the dividend
JsRem(a, b) == IF a >= 0 THEN a % b ELSE 0 - ((0 - a) % b)

\* Math.floor(a / b) for b > 0
FloorDiv(a, b) == IF a >= 0 THEN a \div b ELSE 0 - (((0 - a) + b - 1) \div b)

RECURSIVE SortedSeq(_)
\* [...S].sort((a, b) => a - b)
SortedSeq(S) ==
  IF S = {} THEN << >>
  ELSE LET m == CHOOSE x \in S : \A y \in S : x <= y
       IN <<m>> \o SortedSeq(S \ {m})

----------------------------------------------------------------------------
(* The insertion-ordered Map  key -> { idx, at } *)

NoEntry == [idx |-> Undefined, at |-> Undefined]

KeysOf(m) == {m[i].key : i \in 1..Len(m)}
MapHas(m, k) == k \in KeysOf(m)
MapGet(m, k) ==
  IF MapHas(m, k)
  THEN LET i == CHOOSE j \in 1..Len(m) : m[j].key = k
       IN [idx |-> m[i].idx, at |-> m[i].at]
  ELSE NoEntry

\* mutant: set as delete-then-insert, which moves a re-accessed key to the end
MapSet_moveToEnd(m, k, v) ==
  Append(SelectSeq(m, LAMBDA e : e.key # k), [key |-> k, idx |-> v.idx, at |-> v.at])

\* Map.prototype.set: an existing key keeps its position, a new key goes last
MapSet(m, k, v) ==
  IF MapHas(m, k)
  THEN [i \in 1..Len(m) |->
          IF m[i].key = k THEN [key |-> k, idx |-> v.idx, at |-> v.at] ELSE m[i]]
  ELSE Append(m, [key |-> k, idx |-> v.idx, at |-> v.at])

MapDelete(m, k) == SelectSeq(m, LAMBDA e : e.key # k)

RECURSIVE EvictLoop(_, _)
\* for (const k of visitorFrames.keys()) { delete(k); if (--surplus === 0) break; }
EvictLoop(m, surplus) ==
  IF Len(m) = 0 THEN m
  ELSE IF surplus - 1 = 0 THEN Tail(m)
  ELSE EvictLoop(Tail(m), surplus - 1)

\* mutant: the key inserted last is deleted
EvictFirst_newest(m) == MapDelete(m, m[Len(m)].key)

\* const firstKey = visitorFrames.keys().next().value; visitorFrames.delete(firstKey)
EvictFirst(m) == MapDelete(m, m[1].key)

\* mutant: the cap is compared one entry too late
Evict_late(v, m) ==
  IF Len(m) > MAX_VISITORS + 1
  THEN IF v = "server.js" THEN EvictLoop(m, Len(m) - MAX_VISITORS) ELSE EvictFirst(m)
  ELSE m

Evict(v, m) ==
  IF Len(m) > MAX_VISITORS
  THEN IF v = "server.js" THEN EvictLoop(m, Len(m) - MAX_VISITORS) ELSE EvictFirst(m)
  ELSE m

\* mutant: the advanced index is returned instead of the current one
nextFrameIndex_retNext(v, m, key, frameCount, t) ==
  IF frameCount <= 0 THEN [map |-> m, ret |-> 0]
  ELSE LET prev == MapGet(m, key)
           idx == IF MapHas(m, key) THEN prev.idx ELSE 0
           next == (idx + 1) % frameCount
       IN [map |-> Evict(v, MapSet(m, key, [idx |-> next, at |-> t])),
           ret |-> next]

\* mutant: the index is read from the first entry of the map, not from key's
nextFrameIndex_shared(v, m, key, frameCount, t) ==
  IF frameCount <= 0 THEN [map |-> m, ret |-> 0]
  ELSE LET idx == IF Len(m) > 0 THEN m[1].idx ELSE 0
           next == (idx + 1) % frameCount
       IN [map |-> Evict(v, MapSet(m, key, [idx |-> next, at |-> t])),
           ret |-> idx]

\* mutant: a fingerprint without entry starts at index 1
nextFrameIndex_freshOne(v, m, key, frameCount, t) ==
  IF frameCount <= 0 THEN [map |-> m, ret |-> 0]
  ELSE LET prev == MapGet(m, key)
           idx == IF MapHas(m, key) THEN prev.idx ELSE 1
           next == (idx + 1) % frameCount
       IN [map |-> Evict(v, MapSet(m, key, [idx |-> next, at |-> t])),
           ret |-> idx]

\* mutant: the frameCount guard comes after the entry has been touched
nextFrameIndex_guardLate(v, m, key, frameCount, t) ==
  LET prev == MapGet(m, key)
      idx == IF MapHas(m, key) THEN prev.idx ELSE 0
  IN IF frameCount <= 0
     THEN [map |-> Evict(v, MapSet(m, key, [idx |-> idx, at |-> t])), ret |-> 0]
     ELSE [map |-> Evict(v, MapSet(m, key, [idx |-> (idx + 1) % frameCount, at |-> t])),
           ret |-> idx]

\* function nextFrameIndex(key, frameCount): the map afterwards and the result
nextFrameIndex(v, m, key, frameCount, t) ==
  IF frameCount <= 0 THEN [map |-> m, ret |-> 0]
  ELSE LET prev == MapGet(m, key)
           idx == IF MapHas(m, key) THEN prev.idx ELSE 0
           next == (idx + 1) % frameCount
       IN [map |-> Evict(v, MapSet(m, key, [idx |-> next, at |-> t])),
           ret |-> idx]

\* mutant: an entry whose age is exactly the TTL is swept too
Expired_inclusive(e, t) == t - e.at >= TTL_MS

\* if (now - v.at > TTL_MS) visitorFrames.delete(k)
Expired(e, t) == t - e.at > TTL_MS

sweep(m, t) == SelectSeq(m, LAMBDA e : ~Expired(e, t))

----------------------------------------------------------------------------
(* Animation selection and frame loading *)

\* days % animDirs.length, with days = Math.floor(Date.now() / 86_400_000) + dayOffset
dayIndex(animDirs, t, dayOffset) ==
  JsRem(FloorDiv(t, MS_PER_DAY) + dayOffset, Len(animDirs))

\* getAnimationForToday: the selected id, Undefined when the index is off the list
getAnimationForToday(animDirs, t, dayOffset) ==
  LET i == dayIndex(animDirs, t, dayOffset)
  IN IF i >= 0 THEN animDirs[i + 1] ELSE Undefined

\* loadFrames: the frame files of the selected directory, ordered by number
loadFrames(files) == SortedSeq(files)

\* b.length of the buffer read from frame<f>.svg.gz
FileSize(f) == f + f

\* mutant: the headers are left as they were before the load
headersOf_none(bufs) == << >>

\* frameHeaders = bufs.map((b) => ({ ...BASE_HEADERS, "Content-Length": String(b.length) }))
headersOf(bufs) == [i \in 1..Len(bufs) |-> FileSize(bufs[i])]

\* a directory of ascii-compressed/ whose name is all digits: the id that
\* parseInt(e.name, 10) reads from it, and whether String(id) gives the name
\* back ("1") or not ("01")
DirNames == [id : AnimIds, canonical : BOOLEAN]

\* what ascii-compressed/ can hold: any of these directories
Trees == SUBSET DirNames

RECURSIVE animDirsOf(_)
\* entries.filter(...).map((e) => parseInt(e.name, 10)).sort((a, b) => a - b):
\* one id per directory, so "1" and "01" give the id 1 twice
animDirsOf(tree) ==
  IF tree = {} THEN << >>
  ELSE LET d == CHOOSE x \in tree : \A y \in tree : x.id <= y.id
       IN <<d.id>> \o animDirsOf(tree \ {d})

\* fs.readdir(path.join(asciiCompressedBaseDir, String(selected))) resolves:
\* String(selected) names a directory of the tree only when one is written
\* that way; String(undefined) names the directory "undefined", which the
\* tree may hold or not
readable(tree, selected, hasUndefinedDir) ==
  IF selected = Undefined THEN hasUndefinedDir
  ELSE [id |-> selected, canonical |-> TRUE] \in tree

\* mutant: an empty frame listing is not rejected
loadThrows_noEmptyCheck(animDirs, canRead, frameFiles, allRead) ==
  \/ Len(animDirs) = 0
  \/ ~canRead
  \/ ~allRead

\* loadFrames rejects: no animation directory, a readdir of the selected
\* path that fails, no .svg.gz file in the directory read, or a readFile of
\* one of the frame files that fails
loadThrows(animDirs, canRead, frameFiles, allRead) ==
  \/ Len(animDirs) = 0
  \/ ~canRead
  \/ Len(frameFiles) = 0
  \/ ~allRead

\* the id getAnimationForToday selects in the tree
selectedOf(tree, t, dayOffset) ==
  IF tree = {} THEN Undefined
  ELSE getAnimationForToday(animDirsOf(tree), t, dayOffset)

----------------------------------------------------------------------------
(* The worker's KV namespace and getNextFrameIndex *)

\* a stored value { idx, at } with its expiry; at is written and never read by
\* the worker, so the value is kept as its idx
NoValue == [idx |-> Undefined, exp |-> Undefined]
Null == Undefined

\* VISITOR_STATE.get(key, "json") then stored?.idx: Null once the
\* expirationTtl has passed
kvGet(store, h, t) ==
  IF h \in DOMAIN store /\ store[h] # NoValue /\ t < store[h].exp
  THEN store[h].idx ELSE Null

\* VISITOR_STATE.put(key, value, { expirationTtl: TTL_SECONDS })
kvPut(store, h, idx, t) ==
  [x \in DOMAIN store \cup {h} |->
     IF x = h THEN [idx |-> idx, exp |-> t + TTL_SECONDS] ELSE store[x]]

\* worker loadFrames: the number of frames of the animation, 0 when it throws
workerLoadFrames(F, animId) == IF animId \in DOMAIN F THEN F[animId] ELSE 0

\* one invocation: pc is the await it is parked at, the rest are its locals;
\* kvOps counts the KV operations it has issued
Idle == [pc |-> "idle", via |-> "none", key |-> 0, count |-> 0, cur |-> 0,
         next |-> 0, kvOps |-> 0]

\* what an invocation answered; err names what the catch block of fetch
\* caught: the throw of loadFrames, a rejected get or put, or the read of
\* frames[frameIdx].length on an undefined frame; for a direct call of
\* getNextFrameIndex it names the await its promise rejected with, and for
\* an invocation that ended without answer it is "died"
NoResp == [via |-> "none", key |-> 0, count |-> 0, ret |-> 0,
           status |-> 0, kvOps |-> 0, err |-> "none"]

\* getNextFrameIndex up to its first await: "done" when it returns at once
getNextFrameIndexEnter(via, h, frameCount) ==
  IF frameCount <= 0
  THEN [Idle EXCEPT !.pc = "done", !.via = via, !.key = h, !.count = frameCount]
  ELSE [Idle EXCEPT !.pc = "get", !.via = via, !.key = h, !.count = frameCount,
                    !.kvOps = 1]

\* mutant: the advanced index is handed back by the worker
getNextFrameIndexRead_retNext(q, storedIdx) ==
  LET currentIdx == IF storedIdx # Null THEN storedIdx ELSE 0
      nextIdx == (currentIdx + 1) % q.count
  IN [q EXCEPT !.pc = "put", !.cur = nextIdx, !.next = nextIdx, !.kvOps = 2]

\* getNextFrameIndex between the get and the put
getNextFrameIndexRead(q, storedIdx) ==
  LET currentIdx == IF storedIdx # Null THEN storedIdx ELSE 0
      nextIdx == (currentIdx + 1) % q.count
  IN [q EXCEPT !.pc = "put", !.cur = currentIdx, !.next = nextIdx, !.kvOps = 2]

\* await env.VISITOR_STATE.put(...) does not resolve: the namespaces it can
\* leave behind.  The worker cannot tell whether the service applied the
\* write before the failure, so both outcomes are kept
kvPutFailed(store, h, idx, t) == {store, kvPut(store, h, idx, t)}

\* the Response for frames[frameIdx]: worker.js reads frames[frameIdx].length,
\* which throws into the catch block when the frame is undefined
respond(v, frameIdx, frameCount) ==
  IF frameIdx < frameCount THEN 200
  ELSE IF v = "worker.js" THEN 503 ELSE 200

----------------------------------------------------------------------------
(* History bookkeeping shared by every call of nextFrameIndex *)

NoCall == [op |-> "none", key |-> 0, count |-> 0, ret |-> 0, status |-> 0,
           evicted |-> {}, prior |-> "none", hitPrev |-> FALSE]

\* the entry a key would have had it been the only visitor
soloNext(e, frameCount, t) ==
  [idx |-> ((IF e = NoEntry THEN 0 ELSE e.idx) + 1) % frameCount, at |-> t]

olderAfter(m, m2, k) ==
  LET grown == IF MapHas(m, k) THEN older
               ELSE older \cup {<<a, k>> : a \in KeysOf(m)}
  IN {p \in grown : p[1] \in KeysOf(m2) /\ p[2] \in KeysOf(m2)}

\* one call nextFrameIndex(k, n) made at time now, recorded as operation o
Invoke(o, k, n, status) ==
  LET r == nextFrameIndex(variant, visitorFrames, k, n, now)
      gone == IF n <= 0 THEN {}
              ELSE (KeysOf(visitorFrames) \cup {k}) \ KeysOf(r.map)
      was == MapHas(visitorFrames, k)
  IN /\ visitorFrames' = r.map
     /\ last' = [op |-> o, key |-> k, count |-> n, ret |-> r.ret,
                 status |-> status,
                 evicted |-> gone,
                 prior |-> IF was THEN "present" ELSE removed[k],
                 hitPrev |-> (last.op \in {"get", "call"} /\ last.key \in gone)]
     /\ IF n <= 0
        THEN UNCHANGED <<calls, older, solo, removed, capped>>
        ELSE /\ calls' = [x \in Keys |->
                            IF x \in gone THEN 0
                            ELSE IF x = k
                                 THEN (IF was THEN Min(calls[k] + 1, MaxCalls) ELSE 1)
                                 ELSE calls[x]]
             /\ older' = olderAfter(visitorFrames, r.map, k)
             /\ solo' = IF k = Watched THEN soloNext(solo, n, now) ELSE solo
             /\ removed' = [x \in Keys |->
                              IF x \in gone THEN "cap"
                              ELSE IF x = k THEN "none"
                              ELSE removed[x]]
             /\ capped' = (capped \/ Watched \in gone)

----------------------------------------------------------------------------
(* The in-memory server: startup, the "/" handler, the TTL sweep *)

\* nothing applied yet
NoSel == [ids |-> << >>, epochDays |-> 0, offsetDays |-> 0, index |-> 0,
          selected |-> Undefined, again |-> Undefined, shifted |-> Undefined]
NoKeyed == [of |-> "none", ip |-> << >>, ua |-> << >>, key |-> << >>,
            again |-> << >>, len |-> 0]
NoListing == [files |-> << >>, loaded |-> << >>]
NoTwin == [map |-> << >>, ret |-> 0]
NoReq == [ip |-> << >>, query |-> << >>, ua |-> << >>, via |-> << >>,
          hash |-> Undefined]

Running == exitCode = NoExit
IsServer == variant \in ServerVariants
IsWorker == variant \in WorkerVariants

Init ==
  /\ variant \in Variants
  /\ now = 0
  /\ phase = "loading"
  /\ exitCode = NoExit
  /\ frames = << >>
  /\ frameHeaders = << >>
  /\ visitorFrames = << >>
  /\ last = NoCall
  /\ calls = [k \in Keys |-> 0]
  /\ older = {}
  /\ solo = NoEntry
  /\ removed = [k \in Keys |-> "none"]
  /\ capped = FALSE
  /\ FRAMES \in IF IsWorker THEN FrameTables ELSE {[a \in AnimIds |-> 0]}
  /\ frameCache = {}
  /\ kv = [h \in Hashes |-> NoValue]
  /\ req = [r \in Slots |-> Idle]
  /\ resp = NoResp
  /\ loads = {}
  /\ overlapped = FALSE
  /\ armedAt = 0
  /\ sel = NoSel
  /\ keyed = NoKeyed
  /\ listing = NoListing
  /\ twin = NoTwin
  /\ lastReq = NoReq

\* Date.now() moves on
Tick ==
  /\ Running
  /\ now < MaxNow
  /\ now' = now + 1
  /\ UNCHANGED <<variant, auxVars, phase, exitCode, frames, frameHeaders, visitorFrames, last,
                 calls, older, solo, removed, capped, workerVars>>

\* loadFrames().then(...): the load succeeds, listen is called.  The tree
\* holds numbered directories and, when undef, a directory named "undefined";
\* files are the .svg.gz files of the directory that is read, and allRead
\* tells whether every one of them can be read
StartupLoaded ==
  /\ IsServer /\ Running /\ phase = "loading"
  /\ \E tree \in Trees, off \in DayOffsets, undef \in BOOLEAN,
        files \in Listings, allRead \in BOOLEAN :
       /\ ~loadThrows(animDirsOf(tree),
                      readable(tree, selectedOf(tree, now, off), undef),
                      loadFrames(files), allRead)
       /\ frames' = loadFrames(files)
       /\ frameHeaders' = headersOf(loadFrames(files))
  /\ phase' = "starting"
  /\ UNCHANGED <<variant, auxVars, now, exitCode, visitorFrames, last,
                 calls, older, solo, removed, capped, workerVars>>

\* loadFrames().catch(...): no animation directory, an unreadable directory,
\* no .svg.gz file in it or an unreadable frame file; process.exit(1)
StartupFailed ==
  /\ IsServer /\ Running /\ phase = "loading"
  /\ \E tree \in Trees, off \in DayOffsets, undef \in BOOLEAN,
        files \in Listings, allRead \in BOOLEAN :
       loadThrows(animDirsOf(tree),
                  readable(tree, selectedOf(tree, now, off), undef),
                  loadFrames(files), allRead)
  /\ phase' = "exited"
  /\ exitCode' = 1
  /\ UNCHANGED <<variant, auxVars, now, frames, frameHeaders, visitorFrames, last,
                 calls, older, solo, removed, capped, workerVars>>

\* fastify.listen callback without err
ListenOk ==
  /\ IsServer /\ Running /\ phase = "starting"
  /\ phase' = "listening"
  /\ UNCHANGED <<variant, auxVars, now, exitCode, frames, frameHeaders, visitorFrames, last,
                 calls, older, solo, removed, capped, workerVars>>

\* fastify.listen callback with err; process.exit(1)
ListenErr ==
  /\ IsServer /\ Running /\ phase = "starting"
  /\ phase' = "exited"
  /\ exitCode' = 1
  /\ UNCHANGED <<variant, auxVars, now, frames, frameHeaders, visitorFrames, last,
                 calls, older, solo, removed, capped, workerVars>>

\* mutant: the handler does not look at the frame count
handlerStatus_always200(count) == 200

\* const count = frames.length; if (count === 0) { reply.code(503)... return; }
handlerStatus(count) == IF count = 0 THEN 503 ELSE 200

\* the body of the "/" handler for a request whose visitor key is k
Handle(k) ==
  IF handlerStatus(Len(frames)) = 503
  THEN /\ last' = [NoCall EXCEPT !.op = "get", !.key = k, !.status = 503]
       /\ UNCHANGED <<visitorFrames, calls, older, solo, removed, capped>>
  ELSE Invoke("get", k, Len(frames), 200)

\* fastify.get("/"), a request whose visitor key is k
Get(k) ==
  /\ IsServer /\ Running /\ phase = "listening"
  /\ Handle(k)
  /\ UNCHANGED <<variant, auxVars, now, phase, exitCode, frames, frameHeaders, workerVars>>

\* the body of the setInterval callback
SweepBody ==
  LET m2 == sweep(visitorFrames, now)
      gone == KeysOf(visitorFrames) \ KeysOf(m2)
  IN /\ visitorFrames' = m2
     /\ last' = [NoCall EXCEPT !.op = "sweep", !.evicted = gone]
     /\ calls' = [x \in Keys |-> IF x \in gone THEN 0 ELSE calls[x]]
     /\ older' = {p \in older : p[1] \in KeysOf(m2) /\ p[2] \in KeysOf(m2)}
     /\ solo' = IF solo # NoEntry /\ Expired(solo, now) THEN NoEntry ELSE solo
     /\ removed' = [x \in Keys |-> IF x \in gone THEN "ttl" ELSE removed[x]]
     /\ UNCHANGED capped

\* the setInterval callback, run at any time: every interval is covered
Sweep ==
  /\ IsServer /\ Running
  /\ SweepBody
  /\ UNCHANGED <<variant, auxVars, now, phase, exitCode, frames, frameHeaders, workerVars>>

----------------------------------------------------------------------------
(* The worker: fetch, with its awaits on the KV namespace as separate steps *)

\* invocation r is started while another invocation is parked at an await
Overlaps(r) == \E x \in Slots \ {r} : req[x].pc # "idle"

\* fetch from loadFrames() to the await of VISITOR_STATE.get, for the
\* invocation r whose visitorHash is h: loadFrames throws into the catch block
\* when today's animation has no frames
LoadAndEnter(r, h) ==
  LET animId == getAnimationForToday(ANIMATION_IDS, now, 0)
      n == workerLoadFrames(FRAMES, animId)
      q == getNextFrameIndexEnter("fetch", h, n)
  IN /\ frameCache' = IF variant = "part_001" /\ n > 0
                      THEN frameCache \cup {animId} ELSE frameCache
     /\ loads' = IF n > 0 THEN loads \cup {animId} ELSE loads
     /\ IF n = 0
        THEN /\ resp' = [NoResp EXCEPT !.via = "fetch", !.key = h,
                                       !.status = 503, !.err = "load"]
             /\ req' = [req EXCEPT ![r] = Idle]
        ELSE /\ req' = [req EXCEPT ![r] = q]
             /\ UNCHANGED resp
     /\ overlapped' = (overlapped \/ Overlaps(r))

\* async fetch(request, env, ctx) for "/", from the resolution of
\* hashVisitorKey, which gave h, up to the await of VISITOR_STATE.get
FetchStart(r, h) ==
  /\ IsWorker
  /\ req[r].pc = "idle"
  /\ LoadAndEnter(r, h)
  /\ UNCHANGED <<variant, auxVars, now, serverVars, FRAMES, kv>>

\* await env.VISITOR_STATE.get resolves; put is called
KvGetStep(r) ==
  /\ req[r].pc = "get"
  /\ req' = [req EXCEPT ![r] =
               getNextFrameIndexRead(req[r], kvGet(kv, req[r].key, now))]
  /\ UNCHANGED <<variant, auxVars, now, serverVars, FRAMES, frameCache, kv, resp,
                 loads, overlapped>>

KvGet(r) == IsWorker /\ KvGetStep(r)

\* await env.VISITOR_STATE.put resolves; getNextFrameIndex returns currentIdx
\* and, when it was called by fetch, fetch builds the Response
KvPutStep(r) ==
  /\ req[r].pc = "put"
  /\ kv' = kvPut(kv, req[r].key, req[r].next, now)
  /\ LET status == IF req[r].via = "fetch"
                   THEN respond(variant, req[r].cur, req[r].count) ELSE 0
     IN resp' = [via |-> req[r].via, key |-> req[r].key,
                 count |-> req[r].count, ret |-> req[r].cur,
                 status |-> status, kvOps |-> req[r].kvOps,
                 err |-> IF status = 503 THEN "frame" ELSE "none"]
  /\ req' = [req EXCEPT ![r] = Idle]
  /\ UNCHANGED <<variant, auxVars, now, serverVars, FRAMES, frameCache, loads,
                 overlapped>>

KvPut(r) == IsWorker /\ KvPutStep(r)

Next ==
  \/ Tick
  \/ StartupLoaded
  \/ StartupFailed
  \/ ListenOk
  \/ ListenErr
  \/ \E k \in Keys : Get(k)
  \/ Sweep
  \/ \E r \in Slots, h \in Hashes : FetchStart(r, h)
  \/ \E r \in Slots : KvGet(r)
  \/ \E r \in Slots : KvPut(r)

Spec == Init /\ [][Next]_vars

----------------------------------------------------------------------------
(* The two functions called on their own, with any frame count *)

\* a negative count, zero, and the count that fills the store
FrameCounts == {0 - 1, 0, MaxFrames}

\* nextFrameIndex(k, n)
DirectCall(k, n) ==
  /\ IsServer /\ Running
  /\ Invoke("call", k, n, 0)
  /\ UNCHANGED <<variant, auxVars, now, phase, exitCode, frames, frameHeaders, workerVars>>

\* the "/" handler run on its own, before any frame is loaded
DirectGet(k) ==
  /\ IsServer /\ Running /\ phase = "loading"
  /\ Handle(k)
  /\ UNCHANGED <<variant, auxVars, now, phase, exitCode, frames, frameHeaders, workerVars>>

\* getNextFrameIndex(env, h, n) called in invocation r, up to its first
\* await: with n <= 0 it returns 0 at once
EnterDirect(r, h, n) ==
  LET q == getNextFrameIndexEnter("direct", h, n)
  IN /\ IF q.pc = "done"
        THEN /\ resp' = [NoResp EXCEPT !.via = "direct", !.key = h, !.count = n]
             /\ UNCHANGED req
        ELSE /\ req' = [req EXCEPT ![r] = q]
             /\ UNCHANGED resp
     /\ overlapped' = (overlapped \/ Overlaps(r))

\* getNextFrameIndex(env, h, n), up to its first await
DirectWorkerCall(r, h, n) ==
  /\ IsWorker
  /\ req[r].pc = "idle"
  /\ EnterDirect(r, h, n)
  /\ UNCHANGED <<variant, auxVars, now, serverVars, FRAMES, frameCache, kv, loads>>

\* the clock, over one TTL period
FnTick == now < TTL_MS /\ Tick

FnNext ==
  \/ FnTick
  \/ \E r \in Slots : KvGet(r)
  \/ \E r \in Slots : KvPut(r)
  \/ \E k \in Keys, n \in FrameCounts : DirectCall(k, n)
  \/ \E k \in Keys : DirectGet(k)
  \/ \E r \in Slots, h \in Hashes, n \in FrameCounts : DirectWorkerCall(r, h, n)

\* the frame table is not read by a direct call
FnInit == Init /\ \A a \in AnimIds : FRAMES[a] <= 1

FnSpec == FnInit /\ [][FnNext]_vars

----------------------------------------------------------------------------
(* Strings, the visitor key and the order of the frame files *)

\* the characters of ip and user-agent strings
Chars == {"a", "b"}

\* the strings over Chars with lo..hi characters
Strings(lo, hi) == UNION {[1..n -> Chars] : n \in lo..hi}

\* s.slice(0, end): a negative end counts from the end of s
JsSlice(s, end) ==
  LET e == IF end < 0 THEN (IF Len(s) + end < 0 THEN 0 ELSE Len(s) + end)
           ELSE Min(end, Len(s))
  IN SubSeq(s, 1, e)

\* `${ip}|${ua}` of server.js; part_000 slices ua when ip and ua together
\* exceed the cap; the workers hash `${ip}|${ua.slice(0, 500)}`
visitorKey(v, ip, ua) ==
  IF v = "server.js" THEN ip \o <<"|">> \o ua
  ELSE IF v = "part_000"
       THEN IF Len(ip) + Len(ua) > KEY_CAP
            THEN ip \o <<"|">> \o JsSlice(ua, KEY_CAP - Len(ip))
            ELSE ip \o <<"|">> \o ua
       ELSE ip \o <<"|">> \o JsSlice(ua, UA_SLICE)

\* the length of the key the store is given: the text itself in the servers,
\* its SHA-256 digest in hex in the workers
visitorKeyLength(v, ip, ua) ==
  IF v \in WorkerVariants THEN SHA256_HEX_LEN ELSE Len(visitorKey(v, ip, ua))

RECURSIVE digitsOf(_)
\* the decimal digits of k as they appear in the name frame<k>.svg.gz
digitsOf(k) == IF k < 10 THEN <<k>> ELSE digitsOf(k \div 10) \o <<k % 10>>

RECURSIVE parseInt(_)
\* parseInt(a.slice(5), 10): the number written by the leading digits
parseInt(ds) ==
  IF Len(ds) = 0 THEN 0
  ELSE 10 * parseInt(SubSeq(ds, 1, Len(ds) - 1)) + ds[Len(ds)]

RECURSIVE lexLess(_, _)
\* a < b as strings of digits
lexLess(a, b) ==
  IF Len(a) = 0 THEN Len(b) > 0
  ELSE IF Len(b) = 0 THEN FALSE
  ELSE IF a[1] # b[1] THEN a[1] < b[1]
  ELSE lexLess(Tail(a), Tail(b))

\* mutant: the default sort of strings
compareFrames_lexical(a, b) ==
  IF lexLess(a.digits, b.digits) THEN 0 - 1
  ELSE IF lexLess(b.digits, a.digits) THEN 1 ELSE 0

\* (a, b) => parseInt(a.slice(5), 10) - parseInt(b.slice(5), 10)
compareFrames(a, b) == parseInt(a.digits) - parseInt(b.digits)

RECURSIVE insertFrame(_, _)
\* f placed after the files of the sorted sequence that do not compare above it
insertFrame(sorted, f) ==
  IF Len(sorted) = 0 THEN <<f>>
  ELSE IF compareFrames(sorted[Len(sorted)], f) <= 0 THEN Append(sorted, f)
  ELSE Append(insertFrame(SubSeq(sorted, 1, Len(sorted) - 1), f), sorted[Len(sorted)])

RECURSIVE sortFrames(_)
\* Array.prototype.sort with compareFrames (stable)
sortFrames(fs) ==
  IF Len(fs) = 0 THEN << >>
  ELSE insertFrame(sortFrames(SubSeq(fs, 1, Len(fs) - 1)), fs[Len(fs)])

\* files.filter((f) => f.endsWith(".svg.gz")).sort(...)
frameFilesOf(files) == sortFrames(SelectSeq(files, LAMBDA f : f.gz))

\* a directory entry frame<k>.svg.gz, or frame<k> with another extension
FileNames == [digits : {digitsOf(k) : k \in 1..MaxFrameNo}, gz : BOOLEAN]

\* what fs.readdir can return: distinct names in any order
DirListings ==
  {l \in UNION {[1..n -> FileNames] : n \in 0..MaxFiles} :
     \A i, j \in 1..Len(l) : i # j => l[i] # l[j]}

\* the sorted lists of animation ids
IdLists == {SortedSeq(S) : S \in (SUBSET (1..MaxIds)) \ {{}}}

\* no function has been applied yet
Fresh ==
  /\ sel = NoSel /\ keyed = NoKeyed /\ listing = NoListing
  /\ phase = "loading"

\* getAnimationForToday on day e with offset o, and on day e + ids.length
SelectApply(ids, e, o) ==
  /\ Fresh
  /\ IsServer \/ (ids = ANIMATION_IDS /\ o = 0)
  /\ sel' = [ids |-> ids, epochDays |-> e, offsetDays |-> o,
             index |-> dayIndex(ids, e * MS_PER_DAY, o),
             selected |-> getAnimationForToday(ids, e * MS_PER_DAY, o),
             again |-> getAnimationForToday(ids, e * MS_PER_DAY, o),
             shifted |-> getAnimationForToday(ids, (e + Len(ids)) * MS_PER_DAY, o)]
  /\ UNCHANGED <<variant, now, serverVars, workerVars, twin, lastReq, armedAt, keyed, listing>>

\* the visitor key of a request from ip with user-agent ua, built twice
BuildKey(ip, ua) ==
  /\ Fresh
  /\ keyed' = [of |-> variant, ip |-> ip, ua |-> ua,
               key |-> visitorKey(variant, ip, ua),
               again |-> visitorKey(variant, ip, ua),
               len |-> visitorKeyLength(variant, ip, ua)]
  /\ UNCHANGED <<variant, now, serverVars, workerVars, twin, lastReq, armedAt, sel, listing>>

\* the buffers read from the frame files: each stands for its frame number
bufsOf(frameFiles) ==
  [i \in 1..Len(frameFiles) |-> parseInt(frameFiles[i].digits)]

\* startup on a tree with the one animation directory "1" whose listing is
\* files: loadFrames throws when no .svg.gz file is listed or when a frame
\* file cannot be read, and the process exits with status 1; else frames and
\* frameHeaders are assigned and listen is called
LoadListing(files, allRead) ==
  /\ Fresh
  /\ IsServer /\ Running
  /\ LET frameFiles == frameFilesOf(files)
     IN /\ listing' = [files |-> files, loaded |-> frameFiles]
        /\ IF loadThrows(<<1>>, TRUE, frameFiles, allRead)
           THEN /\ phase' = "exited"
                /\ exitCode' = 1
                /\ UNCHANGED <<frames, frameHeaders>>
           ELSE /\ phase' = "starting"
                /\ frames' = bufsOf(frameFiles)
                /\ frameHeaders' = headersOf(bufsOf(frameFiles))
                /\ UNCHANGED exitCode
  /\ UNCHANGED <<variant, now, visitorFrames, last, calls, older, solo, removed,
                 capped, workerVars, twin, lastReq, armedAt, sel, keyed>>

PureNext ==
  \/ \E ids \in IdLists, e \in 0..MaxDay, o \in (0 - MaxOffset)..MaxOffset :
       SelectApply(ids, e, o)
  \/ \E ip \in Strings(1, MaxIp), ua \in Strings(0, MaxUa) : BuildKey(ip, ua)
  \/ \E files \in DirListings, allRead \in BOOLEAN : LoadListing(files, allRead)

PureInit == Init /\ \A a \in AnimIds : FRAMES[a] <= 1

PureSpec == PureInit /\ [][PureNext]_vars

----------------------------------------------------------------------------
(* The same requests given to nextFrameIndex and to getNextFrameIndex *)

\* the same call given to both: nextFrameIndex(k, n) runs on the Map, and
\* getNextFrameIndex(env, k, n) is called on the KV namespace in invocation r,
\* where it runs up to its first await
LockstepCall(r, k, n) ==
  /\ IsServer
  /\ req[r].pc = "idle"
  /\ Invoke("call", k, n, 0)
  /\ EnterDirect(r, k, n)
  /\ UNCHANGED <<variant, auxVars, now, phase, exitCode, frames, frameHeaders,
                 FRAMES, frameCache, kv, loads>>

\* the awaits of getNextFrameIndex resolve
LockstepGet(r) == IsServer /\ KvGetStep(r)

LockstepPut(r) == IsServer /\ KvPutStep(r)

EqNext ==
  \/ \E r \in Slots, k \in Hashes, n \in FrameCounts :
       LockstepCall(r, k, n)
  \/ \E r \in Slots : LockstepGet(r)
  \/ \E r \in Slots : LockstepPut(r)

EqInit == Init /\ IsServer

EqSpec == EqInit /\ [][EqNext]_vars

----------------------------------------------------------------------------
(* The worker with a KV namespace whose operations can fail *)

\* the status of an invocation whose await rejected: the catch block of
\* fetch answers 503; a direct call of getNextFrameIndex has no catch block,
\* its promise rejects and there is no Response
rejectedStatus(via) == IF via = "fetch" THEN 503 ELSE 0

\* await env.VISITOR_STATE.get rejects
KvGetFail(r) ==
  /\ IsWorker
  /\ req[r].pc = "get"
  /\ resp' = [via |-> req[r].via, key |-> req[r].key,
              count |-> req[r].count, ret |-> 0,
              status |-> rejectedStatus(req[r].via),
              kvOps |-> req[r].kvOps, err |-> "get"]
  /\ req' = [req EXCEPT ![r] = Idle]
  /\ UNCHANGED <<variant, auxVars, now, serverVars, FRAMES, frameCache, kv,
                 loads, overlapped>>

\* await env.VISITOR_STATE.put rejects
KvPutFail(r) ==
  /\ IsWorker
  /\ req[r].pc = "put"
  /\ kv' \in kvPutFailed(kv, req[r].key, req[r].next, now)
  /\ resp' = [via |-> req[r].via, key |-> req[r].key,
              count |-> req[r].count, ret |-> req[r].cur,
              status |-> rejectedStatus(req[r].via),
              kvOps |-> req[r].kvOps, err |-> "put"]
  /\ req' = [req EXCEPT ![r] = Idle]
  /\ UNCHANGED <<variant, auxVars, now, serverVars, FRAMES, frameCache, loads,
                 overlapped>>

\* the invocation ends at its await with no answer (the runtime stops it):
\* a get that was pending reads nothing more, a put that was pending may or
\* may not have been applied
Dies(r) ==
  /\ IsWorker
  /\ req[r].pc \in {"get", "put"}
  /\ kv' \in IF req[r].pc = "put"
             THEN kvPutFailed(kv, req[r].key, req[r].next, now) ELSE {kv}
  /\ resp' = [via |-> req[r].via, key |-> req[r].key,
              count |-> req[r].count,
              ret |-> IF req[r].pc = "put" THEN req[r].cur ELSE 0,
              status |-> 0, kvOps |-> req[r].kvOps, err |-> "died"]
  /\ req' = [req EXCEPT ![r] = Idle]
  /\ UNCHANGED <<variant, auxVars, now, serverVars, FRAMES, frameCache, loads,
                 overlapped>>

FailNext ==
  \/ Tick
  \/ \E r \in Slots, h \in Hashes : FetchStart(r, h)
  \/ \E r \in Slots : KvGet(r)
  \/ \E r \in Slots : KvPut(r)
  \/ \E r \in Slots : KvGetFail(r)
  \/ \E r \in Slots : KvPutFail(r)
  \/ \E r \in Slots : Dies(r)

FailInit == Init /\ IsWorker

FailSpec == FailInit /\ [][FailNext]_vars

----------------------------------------------------------------------------
(* The sweep on its timer *)

\* the delay of the setInterval call: none in server.js, TTL_MS in part_000
sweepInterval(v) == IF v = "server.js" THEN TIMER_DEFAULT_MS ELSE TTL_MS

\* the interval timer fires once its delay has passed since it was armed, runs
\* the callback and is armed again
TimedSweep ==
  /\ IsServer /\ Running
  /\ now >= armedAt + sweepInterval(variant)
  /\ SweepBody
  /\ armedAt' = now
  /\ UNCHANGED <<variant, sel, keyed, listing, twin, lastReq, now, phase, exitCode, frames,
                 frameHeaders, workerVars>>

TimerNext ==
  \/ Tick
  \/ TimedSweep
  \/ \E k \in Keys : DirectCall(k, MaxFrames)

TimerInit == Init /\ IsServer

TimerSpec == TimerInit /\ [][TimerNext]_vars

----------------------------------------------------------------------------
(* The two servers given the same calls *)

\* the server variant that is not running
otherServer(v) == IF v = "server.js" THEN "part_000" ELSE "server.js"

\* nextFrameIndex(k, n) called on the running variant's Map and on the Map of
\* the other variant
TwinCall(k, n) ==
  /\ IsServer
  /\ Invoke("call", k, n, 0)
  /\ twin' = nextFrameIndex(otherServer(variant), twin.map, k, n, now)
  /\ UNCHANGED <<variant, sel, keyed, listing, lastReq, armedAt, now, phase,
                 exitCode, frames, frameHeaders, workerVars>>

TwinNext ==
  \/ FnTick
  \/ \E k \in Keys, n \in FrameCounts : TwinCall(k, n)

TwinInit == Init /\ IsServer

TwinSpec == TwinInit /\ [][TwinNext]_vars

----------------------------------------------------------------------------
(* part_001: requests through GitHub Camo *)

\* the text "github-camo" where it occurs in a header, written as one character
CamoMark == "g"

\* s.includes("github-camo")
includesCamo(s) == \E i \in 1..Len(s) : s[i] = CamoMark

\* ua.includes("github-camo") || request.headers.get("via")?.includes("github-camo");
\* a request without via header carries the empty via
isGitHubCamo(q) == includesCamo(q.ua) \/ includesCamo(q.via)

charCode(c) ==
  CASE c = "a" -> 1 [] c = "b" -> 2 [] c = "?" -> 3 [] c = "|" -> 4 [] OTHER -> 5

RECURSIVE digest(_)
\* crypto.subtle.digest("SHA-256", ...) in hex, taken as free of collisions:
\* the number the text writes in base 5 with digits 1..5
digest(text) ==
  IF Len(text) = 0 THEN 0
  ELSE 5 * digest(SubSeq(text, 1, Len(text) - 1)) + charCode(text[Len(text)])

\* hashVisitorKey(ip, ua) of the worker
hashVisitorKey(ip, ua) == digest(visitorKey("part_001", ip, ua))

\* mutant: Camo is not looked for
visitorHashOf_noCamo(q) == hashVisitorKey(q.ip \o q.query, q.ua)

\* visitorHash of fetch: the global key for Camo, else the hash of
\* ip + queryString and the user-agent
visitorHashOf(q) ==
  IF isGitHubCamo(q) THEN CAMO_GLOBAL
  ELSE hashVisitorKey(q.ip \o q.query, q.ua)

\* the requests: two visitors outside Camo that differ in address and query
\* string, the first of them with and without a via header that does not
\* name Camo; a request whose user-agent names Camo after other text; and a
\* request of the first visitor whose via header names Camo
CamoRequests ==
  {[ip |-> <<"a">>, query |-> << >>, ua |-> <<"a">>, via |-> << >>],
   [ip |-> <<"a">>, query |-> << >>, ua |-> <<"a">>, via |-> <<"a">>],
   [ip |-> <<"b">>, query |-> <<"?">>, ua |-> <<"a">>, via |-> << >>],
   [ip |-> <<"b">>, query |-> <<"?">>, ua |-> <<"a", CamoMark>>, via |-> << >>],
   [ip |-> <<"a">>, query |-> << >>, ua |-> <<"a">>, via |-> <<CamoMark>>]}

\* fetch of part_001 for "/" in invocation r, up to its first await: a Camo
\* request goes on to loadFrames and parks at VISITOR_STATE.get, any other
\* request parks at hashVisitorKey
CamoFetch(r, q) ==
  /\ variant = "part_001"
  /\ req[r].pc = "idle"
  /\ LET h == visitorHashOf(q)
     IN /\ lastReq' = [ip |-> q.ip, query |-> q.query, ua |-> q.ua,
                       via |-> q.via, hash |-> h]
        /\ IF isGitHubCamo(q)
           THEN LoadAndEnter(r, h)
           ELSE LET parked == [Idle EXCEPT !.pc = "hash", !.via = "fetch",
                                           !.key = h]
                IN /\ req' = [req EXCEPT ![r] = parked]
                   /\ overlapped' = (overlapped \/ Overlaps(r))
                   /\ UNCHANGED <<frameCache, loads, resp>>
  /\ UNCHANGED <<variant, now, serverVars, FRAMES, kv, armedAt, sel, keyed,
                 listing, twin>>

\* await hashVisitorKey(ip + queryString, ua) resolves; loadFrames runs and
\* getNextFrameIndex is called
HashDone(r) ==
  /\ variant = "part_001"
  /\ req[r].pc = "hash"
  /\ LoadAndEnter(r, req[r].key)
  /\ UNCHANGED <<variant, auxVars, now, serverVars, FRAMES, kv>>

CamoNext ==
  \/ \E r \in Slots, q \in CamoRequests : CamoFetch(r, q)
  \/ \E r \in Slots : HashDone(r)
  \/ \E r \in Slots : KvGet(r)
  \/ \E r \in Slots : KvPut(r)

CamoInit == Init /\ variant = "part_001"

CamoSpec == CamoInit /\ [][CamoNext]_vars

----------------------------------------------------------------------------
(* Properties *)

\* the keys of the map in iteration order
KeySeq(m) == [i \in 1..Len(m) |-> m[i].key]

\* a "/" request was answered with a frame by the last step taken
Served == last.op = "get" /\ last.status = 200

\* C1: the k-th call for a fingerprint whose entry has not been removed since
\* it was created returns (k-1) mod frameCount: 0, 1, ..., n-1, 0, ...
C1_CyclicFromZero ==
  (Served /\ calls[last.key] < MaxCalls)
    => last.ret = (calls[last.key] - 1) % last.count

\* C1 witness: call number n+1 of a fingerprint came back to index 0
C1_Witness ==
  /\ Served
  /\ last.count = MaxFrames
  /\ calls[last.key] = MaxFrames + 1
  /\ last.ret = 0

\* C2: every index handed to a request is in [0, frameCount), also when the
\* entry was stored under a larger frame count
C2_IndexInRange ==
  /\ Served => last.ret \in 0..(last.count - 1)
  /\ (resp.via = "fetch" /\ resp.kvOps = 2) => resp.ret \in 0..(resp.count - 1)

\* C3: the read-modify-write of one visitor's entry is atomic per key: when a
\* request writes its next index back, the entry still holds the index the
\* request read (or has expired), so no other request's advance is overwritten
C3_AtomicPerKey ==
  [][\A r \in Slots :
       (req[r].pc = "put" /\ req'[r].pc = "idle")
         => LET w == kvGet(kv, req[r].key, now)
            IN w = Null \/ w = req[r].cur]_vars

\* C4: the visitor map never holds more than MAX_VISITORS entries
C4_SizeWithinCap == Len(visitorFrames) <= MAX_VISITORS

\* C4 witness: a request inserted a new fingerprint into a full map
C4_Witness ==
  /\ Served
  /\ last.evicted # {}
  /\ Len(visitorFrames) = MAX_VISITORS

\* C5: a capacity eviction removes the entry inserted earliest among those
\* present, and a call for an existing key leaves the eviction order as it was
C5_EvictsOldestInserted ==
  [][(last'.op = "get" /\ visitorFrames' # visitorFrames)
       => /\ \A e \in last'.evicted :
               \A a \in KeysOf(visitorFrames) \ {e} : <<e, a>> \in older
          /\ (MapHas(visitorFrames, last'.key)
               => KeySeq(visitorFrames') = KeySeq(visitorFrames))]_vars

\* C5 witness: with keys inserted in the order 1, 2, 3 the map holds exactly
\* 2 and 3, and key 1 was evicted although it was the key called just before
C5_Witness ==
  /\ Served
  /\ last.key = 3
  /\ last.evicted = {1}
  /\ last.hitPrev
  /\ KeySeq(visitorFrames) = <<2, 3>>

\* C6 as stated: the index returned to a fingerprint is the one it would get
\* had no other fingerprint ever called
C6_SameAsSolo ==
  (Served /\ last.key = Watched)
    => solo.idx = (last.ret + 1) % last.count

\* C6 amended: a call with another fingerprint leaves a fingerprint's entry as
\* it was or removes it by capacity eviction, and until a fingerprint has lost
\* an entry to capacity eviction its indices are those of its solo run
C6_SoloUntilEvicted ==
  [][
      /\ \A a \in Keys :
          (last'.op = "get" /\ last'.key # a /\ visitorFrames' # visitorFrames
             /\ MapHas(visitorFrames, a))
            => \/ MapGet(visitorFrames', a) = MapGet(visitorFrames, a)
               \/ ~MapHas(visitorFrames', a) /\ a \in last'.evicted
      /\ (last'.op = "get" /\ last'.status = 200 /\ last'.key = Watched
             /\ ~capped')
            => /\ solo'.idx = (last'.ret + 1) % last'.count
               /\ MapGet(visitorFrames', Watched) = solo']_vars

\* C6 witness: the watched fingerprint was served an index above 0 after other
\* fingerprints had been served, and was never evicted
C6_Witness ==
  /\ Served
  /\ last.key = Watched
  /\ last.ret > 0
  /\ ~capped
  /\ Len(visitorFrames) = MAX_VISITORS

\* C7: a sweep removes exactly the entries whose last access is older than the
\* TTL and leaves the others as they are; a call stamps its entry with the time
\* of the call
C7_SweepByTtl ==
  [][
      /\ (last'.op = "sweep" /\ now' = now)
          => \A k \in KeysOf(visitorFrames) :
               IF now - MapGet(visitorFrames, k).at > TTL_MS
               THEN ~MapHas(visitorFrames', k)
               ELSE MapGet(visitorFrames', k) = MapGet(visitorFrames, k)
      /\ (last'.op = "get" /\ last'.status = 200 /\ now' = now)
          => MapGet(visitorFrames', last'.key).at = now]_vars

\* C7 witness: a sweep removed an entry and kept one whose age is exactly TTL
C7_Witness ==
  /\ last.op = "sweep"
  /\ last.evicted # {}
  /\ \E i \in 1..Len(visitorFrames) : now - visitorFrames[i].at = TTL_MS

\* C8: the first call after a fingerprint's entry was removed, by the sweep or
\* by capacity eviction, returns 0 and stores 1 mod frameCount
C8_FreshAfterRemoval ==
  (Served /\ last.prior \in {"ttl", "cap"})
    => /\ last.ret = 0
       /\ MapGet(visitorFrames, last.key).idx = 1 % last.count

\* C8 witness: the watched fingerprint came back after a capacity eviction and
\* was served 0 although its solo run stands at another index
C8_Witness ==
  /\ Served
  /\ last.key = Watched
  /\ last.prior = "cap"
  /\ last.ret = 0
  /\ solo # NoEntry
  /\ solo.idx # (last.ret + 1) % last.count

\* C9: a call with frameCount <= 0 returns 0 and changes nothing: the map is
\* as it was, and the worker issues no KV operation
C9_NoFramesNoMutation ==
  [][
      /\ (last'.op = "call" /\ last'.count <= 0)
          => last'.ret = 0 /\ visitorFrames' = visitorFrames
      /\ (resp'.via = "direct" /\ resp'.count <= 0)
          => /\ resp'.ret = 0
             /\ resp'.kvOps = 0
             /\ (resp' # resp => (kv' = kv /\ req' = req))]_vars

\* C9 witness: a call with a negative count for a fingerprint that has no
\* entry, made on a full map
C9_Witness ==
  /\ last.op = "call"
  /\ last.count < 0
  /\ last.ret = 0
  /\ ~MapHas(visitorFrames, last.key)
  /\ Len(visitorFrames) = MAX_VISITORS

\* C10: the server listens only after a successful load, a failed load exits
\* with status 1 without ever listening, and every handled request finds frames
C10_ListenOnlyLoaded ==
  /\ phase \in {"starting", "listening"} => Len(frames) > 0
  /\ last.op = "get" => (phase = "listening" /\ Len(frames) > 0 /\ last.status = 200)
  /\ phase = "exited" <=> exitCode = 1
  /\ phase = "exited" => (visitorFrames = << >> /\ last.op # "get")

\* C10 witness: the load failed and the process exited with status 1
C10_Witness ==
  /\ phase = "exited"
  /\ exitCode = 1
  /\ Len(frames) = 0

\* C11: a "/" request handled while no frames are loaded is answered 503 and
\* leaves the visitor store as it was: no entry is created, advanced or
\* re-stamped, and nextFrameIndex is not called
C11_UnavailableNoMutation ==
  [][(last'.op = "get" /\ Len(frames) = 0)
       => /\ last'.status = 503
          /\ last'.ret = 0
          /\ visitorFrames' = visitorFrames
          /\ calls' = calls]_vars

\* C11 witness: a fingerprint without entry asked while the store was full and
\* no frames were loaded, and was answered 503
C11_Witness ==
  /\ last.op = "get"
  /\ last.status = 503
  /\ Len(frames) = 0
  /\ Len(visitorFrames) = MAX_VISITORS
  /\ ~MapHas(visitorFrames, last.key)

\* an earlier request of this worker loaded an animation: loadFrames returned
\* its frames
everLoaded == loads # {}

\* C12: once an animation has been loaded, a request made when today's
\* animation has no frames is still served a frame: loadFrames never answers
\* it 503
C12_ServesLastLoaded ==
  [][(now' = now /\ resp' # resp /\ resp'.via = "fetch" /\ resp'.err = "load")
       => ~everLoaded]_vars

\* the numbers of the loaded frame files, in loaded order
loadedNumbers == [i \in 1..Len(listing.loaded) |-> parseInt(listing.loaded[i].digits)]

\* C14: the selection is a function of (epochDays, offsetDays, ids): evaluated
\* again it gives the same id, and on day epochDays + len(ids) it gives the
\* same id as on day epochDays
C14_PureAndCyclic ==
  Len(sel.ids) > 0
    => /\ sel.again = sel.selected
       /\ sel.shifted = sel.selected

\* C15: the visitor key has at most KEY_CAP (511) characters for every ip and
\* user-agent, and the same ip and user-agent give the same key
C15_KeyBounded ==
  keyed.of # "none"
    => /\ keyed.len <= KEY_CAP
       /\ keyed.again = keyed.key

\* C16: the loaded frame files are exactly the .svg.gz files of the listing,
\* in strictly increasing order of the number after "frame", whatever the
\* order of the listing, and frames holds their buffers in that order
C16_NumericOrder ==
  /\ \A i \in 1..(Len(listing.loaded) - 1) : loadedNumbers[i] < loadedNumbers[i + 1]
  /\ {listing.loaded[i] : i \in 1..Len(listing.loaded)}
       = {listing.files[i] : i \in {j \in 1..Len(listing.files) : listing.files[j].gz}}
  /\ phase = "starting" => frames = loadedNumbers
  /\ phase = "exited" => frames = << >>

\* C16 witness: the listing gave frame10.svg.gz before frame2.svg.gz, and the
\* loaded order is frame2, frame10
C16_Witness ==
  /\ Len(listing.files) = MaxFiles
  /\ listing.files[1] = [digits |-> <<1, 0>>, gz |-> TRUE]
  /\ listing.files[MaxFiles] = [digits |-> <<2>>, gz |-> TRUE]
  /\ \E i \in 1..(Len(loadedNumbers) - 1) :
        loadedNumbers[i] = 2 /\ loadedNumbers[Len(loadedNumbers)] = 10
  /\ phase = "starting"
  /\ frames[Len(frames)] = 10

\* C17: for every day count and offset, also with a negative sum, the index
\* days % length is in [0, length) and the selected animation is in the list
C17_IndexInList ==
  Len(sel.ids) > 0
    => /\ sel.index \in 0..(Len(sel.ids) - 1)
       /\ \E i \in 1..Len(sel.ids) : sel.selected = sel.ids[i]

\* no invocation is in flight and none has overlapped another
Sequential == ~overlapped /\ \A r \in Slots : req[r].pc = "idle"

\* C18: for requests that do not overlap, expire or evict, getNextFrameIndex
\* returns the index nextFrameIndex returns and stores the index it stores
C18_WorkerMatchesServer ==
  /\ \A r \in Slots : (~overlapped /\ req[r].pc = "put") => req[r].cur = last.ret
  /\ (last.op = "call" /\ Sequential)
       => /\ resp.ret = last.ret
          /\ \A h \in Hashes :
               /\ MapHas(visitorFrames, h) <=> kv[h] # NoValue
               /\ MapHas(visitorFrames, h) => MapGet(visitorFrames, h).idx = kv[h].idx

\* C18 witness: both stores handed out the last index of a full cycle while
\* holding an entry for every fingerprint
C18_Witness ==
  /\ last.op = "call"
  /\ Sequential
  /\ last.count = MaxFrames
  /\ last.ret = MaxFrames - 1
  /\ resp.ret = MaxFrames - 1
  /\ \A h \in Hashes : kv[h] # NoValue

\* the request before this one of the visitor of invocation r failed after
\* its read of the index and before its put completed (the put rejected, or
\* the invocation died at the put), and no request has completed since
failedFor(r) ==
  /\ resp.via = "fetch"
  /\ resp.err = "put" \/ (resp.err = "died" /\ resp.kvOps = 2)
  /\ resp.key = req[r].key

\* the entry the failed request read has not expired (a request that read no
\* entry, or index 0, reads index 0 again)
stillLive(r) == kvGet(kv, req[r].key, now) # Null \/ resp.ret = 0

\* C19: a request that fails between its read of the index and the completion
\* of its put (the put rejects, or the invocation dies) leaves the namespace
\* as it was, and a rejected put is answered 503; the visitor's next request
\* reads the index the failed request had read, is served that index and
\* stores the one after it.  The last two are asked only of requests that no
\* other request overlapped and whose entry has not expired meanwhile
C19_FailedPutKeepsIndex ==
  [][\A r \in Slots :
      /\ (req[r].pc = "put" /\ req'[r].pc = "idle" /\ resp'.err = "put")
           => (resp'.status = 503 /\ resp'.ret = req[r].cur)
      /\ (req[r].pc = "put" /\ req'[r].pc = "idle" /\ resp'.err \in {"put", "died"})
           => kv' = kv
      /\ (req[r].pc = "get" /\ req'[r].pc = "put" /\ failedFor(r)
            /\ ~overlapped /\ stillLive(r))
           => req'[r].cur = resp.ret
      /\ (req[r].pc = "put" /\ req'[r].pc = "idle" /\ resp'.status = 200
            /\ failedFor(r) /\ ~overlapped /\ stillLive(r))
           => /\ resp'.ret = resp.ret
              /\ kv'[req[r].key].idx = (resp.ret + 1) % req[r].count]_vars

\* C20: in every in-memory server the sweep runs TTL_MS after the timer was
\* armed and TTL_MS after the sweep before it
C20_SweepEveryTtl ==
  [][(last'.op = "sweep" /\ now' = now) => now - armedAt >= TTL_MS]_vars

\* C22: given the same calls from an empty store, the variant that evicts in
\* a loop and the variant that evicts the first key return the same indices
\* and hold the same entries in the same order; the Map is never over the cap
\* and the key just called is present
C22_EvictionsAgree ==
  /\ twin.map = visitorFrames
  /\ last.op = "call" => twin.ret = last.ret
  /\ Len(visitorFrames) <= MAX_VISITORS
  /\ (last.op = "call" /\ last.count > 0)
       => MapHas(visitorFrames, last.key) /\ MapHas(twin.map, last.key)

\* C22 witness: a call for a new fingerprint on a full store evicted the
\* oldest key in both variants
C22_Witness ==
  /\ last.op = "call"
  /\ last.evicted # {}
  /\ last.prior # "present"
  /\ Len(twin.map) = MAX_VISITORS
  /\ KeySeq(twin.map) = KeySeq(visitorFrames)
  /\ ~(\E e \in last.evicted : MapHas(twin.map, e))

\* C21: a request recognised as Camo, by its user-agent or its via header,
\* uses the global key whatever its ip, query and user-agent; any other
\* request uses a key that is not the global one and is the same for the same
\* ip, query and user-agent; an invocation reads and advances the entry of its
\* own key only; Camo requests that do not overlap are served consecutive
\* indices of one shared sequence
C21_CamoSharesOneKey ==
  [][/\ lastReq' # NoReq
          => (isGitHubCamo(lastReq') <=> lastReq'.hash = CAMO_GLOBAL)
     /\ (~isGitHubCamo(lastReq') /\ ~isGitHubCamo(lastReq)
           /\ lastReq'.ip = lastReq.ip /\ lastReq'.query = lastReq.query
           /\ lastReq'.ua = lastReq.ua)
          => lastReq'.hash = lastReq.hash
     /\ \A r \in Slots :
          /\ (req[r].pc = "idle" /\ req'[r].pc # "idle")
               => req'[r].key = lastReq'.hash
          /\ (req[r].pc = "idle" /\ req'[r].pc = "idle" /\ resp' # resp
                /\ lastReq' # lastReq)
               => resp'.key = lastReq'.hash
          /\ (req[r].pc = "hash" /\ req'[r].pc = "get")
               => req'[r].key = req[r].key
          /\ (req[r].pc = "get" /\ req'[r].pc = "put")
               => LET stored == kvGet(kv, req[r].key, now)
                  IN req'[r].cur = (IF stored = Null THEN 0 ELSE stored)
          /\ (req[r].pc = "put" /\ req'[r].pc = "idle")
               => /\ resp'.key = req[r].key
                  /\ resp'.ret = req[r].cur
                  /\ kvGet(kv', req[r].key, now) = (req[r].cur + 1) % req[r].count
                  /\ \A x \in DOMAIN kv :
                       x # req[r].key => (x \in DOMAIN kv' /\ kv'[x] = kv[x])
          /\ (req[r].pc = "put" /\ req'[r].pc = "idle" /\ ~overlapped
                /\ req[r].key = CAMO_GLOBAL)
               => LET stored == kvGet(kv, CAMO_GLOBAL, now)
                  IN /\ resp'.ret = (IF stored = Null THEN 0 ELSE stored)
                     /\ (resp.key = CAMO_GLOBAL /\ resp.status = 200)
                          => resp'.ret = (resp.ret + 1) % resp.count
     /\ (\A r \in Slots : req[r].pc # "put") => kv' = kv]_vars

\* C21 witness: of requests that never overlapped, one recognised by its via
\* header alone was served the last index of the shared sequence, while a
\* visitor outside Camo has an entry of its own
C21_Witness ==
  /\ Sequential
  /\ isGitHubCamo(lastReq)
  /\ ~includesCamo(lastReq.ua)
  /\ resp.key = CAMO_GLOBAL
  /\ resp.status = 200
  /\ resp.ret = MaxFrames - 1
  /\ \E x \in DOMAIN kv : x # CAMO_GLOBAL /\ kv[x] # NoValue

\* C13: whenever a "/" handler can run, frames and frameHeaders have the same
\* length and frameHeaders[i] carries the Content-Length of frames[i]; after a
\* successful load neither is empty
C13_SwapAtomic ==
  /\ Len(frameHeaders) = Len(frames)
  /\ \A i \in 1..Len(frames) : frameHeaders[i] = FileSize(frames[i])
  /\ phase \in {"starting", "listening"} => Len(frames) > 0

\* C13 witness: a request was served the last frame of a full animation with
\* the header built for that frame
C13_Witness ==
  /\ Served
  /\ Len(frames) = MaxFrames
  /\ last.ret = MaxFrames - 1
  /\ frameHeaders[last.ret + 1] = FileSize(frames[last.ret + 1])

====
